---------------------------- MODULE Spec2Model ----------------------------
(***************************************************************************)
(* Model of the wally result data model (src/wally/result_classes.py) and  *)
(* of the nested configuration lookup (src/wally/config.py), and of the     *)
(* ssh-runner branch of main (src/run_test.py).                            *)
(*                                                                         *)
(* Python values are tagged records: [t |-> "None"], [t |-> "str", v |->   *)
(* <<chars>>], [t |-> "num", v |-> n], [t |-> "ndarray", v |-> <<...>>],   *)
(* [t |-> "list", v |-> <<...>>] and so on.  A Python string is a sequence *)
(* of one-character TLA+ strings, so that formatting and splitting are     *)
(* real operations on characters.  An object's __dict__ is a function from *)
(* attribute names to values.  A call that may raise returns               *)
(* [ok |-> TRUE, val |-> v] or [ok |-> FALSE, err |-> "ErrorName"].        *)
(***************************************************************************)
EXTENDS Integers, Sequences, FiniteSets, TLC

VARIABLES
    heap,        \* DataSource objects: sequence of __dict__, index = identity
    lastcall,    \* the last DataSource operation and the heap it started from
    eq_a,        \* SuiteConfig under comparison (left operand)
    eq_b,        \* the object it is compared with (right operand)
    eq_res,      \* result of eq_a == eq_b, or "none" before the comparison
    suite_db,    \* result storage: suite storage_id -> stored SuiteConfig
    suite_locks, \* suite identities whose per-key lock is held
    callers,     \* each caller of put_or_check_suite: position and locals
    ts_db,       \* result storage: storage key -> stored TimeSeries
    ts_puts,     \* the TimeSeries handed to put_ts so far, in call order
    ts_iter,     \* the last iter_ts call and the sequence it yielded
    sp,          \* the StatProps object under construction, or None
    sp_op,       \* the last operation on sp and what it returned
    st_db,       \* result storage: storage key -> stored statistics
    st_called,   \* storage key -> the object of the last put_stat call on it
    st_last,     \* the last put_stat / get_stat call and its outcome
    cfg,         \* the Config object
    cfg_last,    \* the last Config.get call: arguments, result, Config before
    main_pc,     \* main, ssh runner: the statement main is about to execute
    main_locals, \* main's local variables: raw_count, io_opts, count, res
    main_trace,  \* the external calls main has made, in order, with outcome
    main_exit    \* how main ended: "none", "return" or the exception raised

vars == <<heap, lastcall, eq_a, eq_b, eq_res, suite_db, suite_locks, callers,
          ts_db, ts_puts, ts_iter, sp, sp_op, st_db, st_called, st_last,
          cfg, cfg_last, main_pc, main_locals, main_trace, main_exit>>

dsVars == <<heap, lastcall>>
eqVars == <<eq_a, eq_b, eq_res>>
suiteVars == <<suite_db, suite_locks, callers>>
tsVars == <<ts_db, ts_puts, ts_iter>>
spVars == <<sp, sp_op>>
stVars == <<st_db, st_called, st_last>>

\* the variables outside each part of the model
cfgVars == <<cfg, cfg_last>>
mainVars == <<main_pc, main_locals, main_trace, main_exit>>
notDS == <<eqVars, suiteVars, tsVars, spVars, stVars, cfgVars, mainVars>>
notEq == <<dsVars, suiteVars, tsVars, spVars, stVars, cfgVars, mainVars>>
notSuite == <<dsVars, eqVars, tsVars, spVars, stVars, cfgVars, mainVars>>
notTS == <<dsVars, eqVars, suiteVars, spVars, stVars, cfgVars, mainVars>>
notSP == <<dsVars, eqVars, suiteVars, tsVars, stVars, cfgVars, mainVars>>
notST == <<dsVars, eqVars, suiteVars, tsVars, spVars, cfgVars, mainVars>>
notCfg == <<dsVars, eqVars, suiteVars, tsVars, spVars, stVars, mainVars>>
notMain == <<dsVars, eqVars, suiteVars, tsVars, spVars, stVars, cfgVars>>

---------------------------------------------------------------------------
(* Python values *)

None == [t |-> "None"]
Str(s) == [t |-> "str", v |-> s]
Num(n) == [t |-> "num", v |-> n]

Ok(v) == [ok |-> TRUE, val |-> v]
Raise(e) == [ok |-> FALSE, err |-> e]

\* str(x) as used by str.format: None renders as the four characters "None"
PyStr(x) == IF x.t = "None" THEN <<"N", "o", "n", "e">> ELSE x.v

Range(s) == {s[i] : i \in DOMAIN s}

\* dict.update: keys of upd replace or extend those of dct
DictUpdate(dct, upd) ==
    [k \in (DOMAIN dct) \cup (DOMAIN upd) |->
        IF k \in DOMAIN upd THEN upd[k] ELSE dct[k]]

---------------------------------------------------------------------------
(* DataSource *)

MaxInitKwargs == 2   \* at most this many keyword arguments to DataSource(...)

DataSourceFields == {"suite_id", "job_id", "node_id", "dev", "sensor", "tag"}

\* the strings used as field values: "a" and "a.a"
FieldStrings == {<<"a">>, <<"a", ".", "a">>}
FieldVals == {None} \cup {Str(s) : s \in FieldStrings}

\* every keyword-argument mapping over a subset of the six fields
Kwargs == UNION {[S -> FieldVals] : S \in SUBSET DataSourceFields}

\* DataSource.__init__: every parameter defaults to None
DataSource_init(kwargs) ==
    [f \in DataSourceFields |-> IF f \in DOMAIN kwargs THEN kwargs[f] ELSE None]

\* mutant: the copy of self.__dict__ is dropped, update() writes into self
DataSource_call_nocopy(h, self, kwargs) ==
    LET dct == DictUpdate(h[self], kwargs)
    IN  [heap |-> Append([h EXCEPT ![self] = dct], DataSource_init(dct)),
         ret |-> Len(h) + 1]

\* DataSource.__call__: dct = self.__dict__.copy(); dct.update(kwargs);
\* return self.__class__(**dct).  Returns the heap after the call and the
\* identity of the returned object.
DataSource_call(h, self, kwargs) ==
    LET dct == DictUpdate(h[self], kwargs)
    IN  [heap |-> Append(h, DataSource_init(dct)), ret |-> Len(h) + 1]

\* DataSource.__str__:
\* "{0.suite_id}.{0.job_id}/{0.node_id}/{0.dev}.{0.sensor}.{0.tag}"
DataSource_str(d) ==
    PyStr(d["suite_id"]) \o <<".">> \o PyStr(d["job_id"]) \o <<"/">> \o
    PyStr(d["node_id"]) \o <<"/">> \o
    PyStr(d["dev"]) \o <<".">> \o PyStr(d["sensor"]) \o <<".">> \o PyStr(d["tag"])

NoCall == [op |-> "none", self |-> 0, kwargs |-> <<>>, ret |-> 0, pre |-> <<>>]

DSIdle == heap = <<>> /\ lastcall = NoCall

\* d = DataSource(**kwargs)
DataSourceNew ==
    /\ heap = <<>>
    /\ \E kwargs \in Kwargs :
        /\ Cardinality(DOMAIN kwargs) <= MaxInitKwargs
        /\ heap' = <<DataSource_init(kwargs)>>
        /\ lastcall' = [NoCall EXCEPT !.op = "init", !.kwargs = kwargs, !.ret = 1]
    /\ UNCHANGED notDS

\* d2 = d(**kwargs), once per template object
DataSourceCall ==
    /\ Len(heap) = 1
    /\ \E kwargs \in Kwargs :
        LET r == DataSource_call(heap, 1, kwargs)
        IN  /\ heap' = r.heap
            /\ lastcall' = [op |-> "call", self |-> 1, kwargs |-> kwargs,
                            ret |-> r.ret, pre |-> heap]
    /\ UNCHANGED notDS


\* C6: d(**overrides), for any subset of the six fields, returns a new
\* DataSource whose overridden fields carry the supplied values and whose
\* other fields equal those of d, and leaves all six fields of d unchanged.
C6_CallCopiesWithOverrides ==
    lastcall.op = "call" =>
        LET self == lastcall.self
            ret == lastcall.ret
            before == lastcall.pre[self]
        IN  /\ ret \in DOMAIN heap
            /\ ret # self
            /\ ret \notin DOMAIN lastcall.pre
            /\ \A f \in DataSourceFields :
                  /\ heap[ret][f] = IF f \in DOMAIN lastcall.kwargs
                                    THEN lastcall.kwargs[f] ELSE before[f]
                  /\ heap[self][f] = before[f]

\* a call that overrides some but not all fields, one of them with a new value
C6_Witness ==
    /\ lastcall.op = "call"
    /\ DOMAIN lastcall.kwargs # {}
    /\ DOMAIN lastcall.kwargs # DataSourceFields
    /\ \E f \in DOMAIN lastcall.kwargs : lastcall.kwargs[f] # lastcall.pre[1][f]
    /\ \E f \in DataSourceFields \ DOMAIN lastcall.kwargs : lastcall.pre[1][f] # None


SameFields(d1, d2) == \A f \in DataSourceFields : d1[f] = d2[f]

\* C7: two DataSources are the same storage location iff all six fields
\* compare equal: with str(d) as the storage key, equal fields give the same
\* key and DataSources differing in any field never give the same key.
C7_KeyIdentifiesFields ==
    \A i, j \in DOMAIN heap :
        SameFields(heap[i], heap[j]) <=> DataSource_str(heap[i]) = DataSource_str(heap[j])

---------------------------------------------------------------------------
(* SuiteConfig *)

MaxNodes == 2   \* at most this many nodes in a suite

TestTypes == {<<"f", "i", "o">>, <<"m", "d">>}
ParamsVals == {[bs |-> Num(4)], [bs |-> Num(8)], [bs |-> Num(4), rw |-> Num(1)]}
RunUuids == {<<"u", "1">>, <<"u", "2">>}
RemoteDirs == {<<"/", "x">>, <<"/", "y">>}
NodeIds == {<<"a">>, <<"b">>}
Idxs == {0, 1}

\* an IRPCNode: its node_id and the connection it wraps
Nodes == [node_id : NodeIds, conn : {"c1", "c2"}]
NodeLists == UNION {[1..n -> Nodes] : n \in 0..MaxNodes}

\* "{}_{}".format(self.test_type, idx)
StorageId(test_type, idx) == test_type \o <<"_">> \o <<ToString(idx)>>

\* SuiteConfig.__init__
SuiteConfig_init(test_type, params, run_uuid, nodes, remote_dir, idx) ==
    [cls |-> "SuiteConfig",
     d |-> [test_type |-> test_type,
            params |-> params,
            run_uuid |-> run_uuid,
            nodes |-> nodes,
            nodes_ids |-> [i \in DOMAIN nodes |-> nodes[i].node_id],
            remote_dir |-> remote_dir,
            storage_id |-> StorageId(test_type, idx)]]

\* mutant: nodes_ids compared as lists instead of as sets
SuiteConfig_eq_ordered(self, o) ==
    IF o.cls # self.cls THEN FALSE
    ELSE /\ self.d.test_type = o.d.test_type
         /\ self.d.params = o.d.params
         /\ self.d.nodes_ids = o.d.nodes_ids

\* SuiteConfig.__eq__
SuiteConfig_eq(self, o) ==
    IF o.cls # self.cls THEN FALSE
    ELSE /\ self.d.test_type = o.d.test_type
         /\ self.d.params = o.d.params
         /\ Range(self.d.nodes_ids) = Range(o.d.nodes_ids)

\* eq_a = SuiteConfig(...), with the first run's uuid, directory and index
NewLeft ==
    /\ eq_a = None
    /\ \E tt \in TestTypes, p \in ParamsVals, ns \in NodeLists :
        eq_a' = SuiteConfig_init(tt, p, <<"u", "1">>, ns, <<"/", "x">>, 0)
    /\ UNCHANGED <<eq_b, eq_res, notEq>>

\* eq_b = SuiteConfig(...) with any arguments
NewRight ==
    /\ eq_a # None
    /\ eq_b = None
    /\ \E tt \in TestTypes, p \in ParamsVals, u \in RunUuids, ns \in NodeLists,
          rd \in RemoteDirs, idx \in Idxs :
        eq_b' = SuiteConfig_init(tt, p, u, ns, rd, idx)
    /\ UNCHANGED <<eq_a, eq_res, notEq>>

\* eq_res = (eq_a == eq_b)
Compare ==
    /\ eq_a # None
    /\ eq_b # None
    /\ eq_res = "none"
    /\ eq_res' = IF SuiteConfig_eq(eq_a, eq_b) THEN "True" ELSE "False"
    /\ UNCHANGED <<eq_a, eq_b, notEq>>

EqIdle == eq_a = None /\ eq_b = None /\ eq_res = "none"

\* the set of node ids a suite was built from, read off its nodes
NodeIdSet(s) == {s.d.nodes[i].node_id : i \in DOMAIN s.d.nodes}

\* C5: two SuiteConfig instances compare equal iff their test_type values are
\* equal, their params mappings are equal and the sets of their nodes_ids are
\* equal; node order, run_uuid, remote_dir and nodes do not matter.
C5_EqIffTypeParamsNodeSet ==
    eq_res # "none" =>
        (eq_res = "True" <=>
            /\ eq_a.d.test_type = eq_b.d.test_type
            /\ eq_a.d.params = eq_b.d.params
            /\ NodeIdSet(eq_a) = NodeIdSet(eq_b))

\* equal although node order, node objects, run_uuid, remote_dir and idx differ
C5_Witness ==
    /\ eq_res = "True"
    /\ eq_a.d.nodes_ids # eq_b.d.nodes_ids
    /\ eq_a.d.nodes # eq_b.d.nodes
    /\ Len(eq_a.d.nodes) = 2
    /\ eq_a.d.run_uuid # eq_b.d.run_uuid
    /\ eq_a.d.remote_dir # eq_b.d.remote_dir
    /\ eq_a.d.storage_id # eq_b.d.storage_id


---------------------------------------------------------------------------
(* Storable and the suite part of IResultStorage *)

MaxCallers == 2   \* concurrent callers of put_or_check_suite

\* __ignore_fields__ of SuiteConfig
SuiteConfig_ignore_fields == {"nodes", "run_uuid", "remote_dir"}

\* Storable.raw: the attributes that are not ignored
Storable_raw(obj, ignore) == [f \in (DOMAIN obj.d) \ ignore |-> obj.d[f]]

\* Storable.fromraw: an instance of cls with the ignored attributes None
Storable_fromraw(cls, data, ignore) ==
    [cls |-> cls,
     d |-> [f \in (DOMAIN data) \cup ignore |->
               IF f \in ignore THEN None ELSE data[f]]]

\* what the storage holds for, and loads back as, a suite
StoredSuite(suite) ==
    Storable_fromraw("SuiteConfig",
                     Storable_raw(suite, SuiteConfig_ignore_fields),
                     SuiteConfig_ignore_fields)

\* the suites handed to the storage: one test type, two parameter sets, the
\* same two nodes in either order, two indexes
StorageSuites ==
    {SuiteConfig_init(<<"f", "i", "o">>, p, <<"u", "1">>, ns, <<"/", "x">>, idx) :
        p \in {[bs |-> Num(4)], [bs |-> Num(8)]},
        ns \in {<<[node_id |-> <<"a">>, conn |-> "c1"], [node_id |-> <<"b">>, conn |-> "c1"]>>,
                <<[node_id |-> <<"b">>, conn |-> "c1"], [node_id |-> <<"a">>, conn |-> "c1"]>>},
        idx \in Idxs}

SuiteIds == {s.d.storage_id : s \in StorageSuites}

\* the states a storage can be in: per identity nothing, or one stored suite
SuiteDbs ==
    UNION {{db \in [ids -> {StoredSuite(s) : s \in StorageSuites}] :
               \A id \in ids : db[id].d.storage_id = id} : ids \in SUBSET SuiteIds}

IdleCaller == [pc |-> "idle", suite |-> None, seen |-> None, outcome |-> "none"]

\* mutant: the per-key lock is never taken
Lock_is_free_always(locks, id) == TRUE

\* the per-key lock of put_or_check_suite can be taken
Lock_is_free(locks, id) == id \notin locks

\* put_or_check_suite(suite) is called by p
Begin(p) ==
    /\ callers[p].pc = "idle"
    /\ \E suite \in StorageSuites :
        callers' = [callers EXCEPT ![p] = [IdleCaller EXCEPT !.pc = "wait", !.suite = suite]]
    /\ UNCHANGED <<suite_db, suite_locks, notSuite>>

\* p takes the lock of its suite's identity
Acquire(p) ==
    /\ callers[p].pc = "wait"
    /\ Lock_is_free(suite_locks, callers[p].suite.d.storage_id)
    /\ suite_locks' = suite_locks \cup {callers[p].suite.d.storage_id}
    /\ callers' = [callers EXCEPT ![p].pc = "check"]
    /\ UNCHANGED <<suite_db, notSuite>>

\* p looks the identity up
Check(p) ==
    /\ callers[p].pc = "check"
    /\ LET id == callers[p].suite.d.storage_id
       IN  callers' = [callers EXCEPT ![p].pc = "decide",
                                      ![p].seen = IF id \in DOMAIN suite_db
                                                  THEN suite_db[id] ELSE None]
    /\ UNCHANGED <<suite_db, suite_locks, notSuite>>

\* p persists the suite if it saw none, else compares the stored one with it
Decide(p) ==
    /\ callers[p].pc = "decide"
    /\ LET c == callers[p]
           id == c.suite.d.storage_id
       IN  IF c.seen = None
           THEN /\ suite_db' = [k \in (DOMAIN suite_db) \cup {id} |->
                                   IF k = id THEN StoredSuite(c.suite) ELSE suite_db[k]]
                /\ callers' = [callers EXCEPT ![p].pc = "release", ![p].outcome = "created"]
           ELSE /\ suite_db' = suite_db
                /\ callers' = [callers EXCEPT
                                 ![p].pc = "release",
                                 ![p].outcome = IF SuiteConfig_eq(c.seen, c.suite)
                                                THEN "ok" ELSE "SuiteConflictError"]
    /\ UNCHANGED <<suite_locks, notSuite>>

\* p releases the lock and returns (or raises)
Release(p) ==
    /\ callers[p].pc = "release"
    /\ suite_locks' = suite_locks \ {callers[p].suite.d.storage_id}
    /\ callers' = [callers EXCEPT ![p].pc = "done"]
    /\ UNCHANGED <<suite_db, notSuite>>

SuiteIdle == suite_db = <<>> /\ suite_locks = {} /\ callers = <<>>

\* the equality rule of the data model, stated on the constructor's inputs
SameConfiguration(a, b) ==
    /\ a.d.test_type = b.d.test_type
    /\ a.d.params = b.d.params
    /\ Range(a.d.nodes_ids) = Range(b.d.nodes_ids)

Returned(p) == callers[p].outcome # "none"

\* C1: put_or_check_suite(s) with a suite of the same identity already stored
\* succeeds and leaves the stored suite unchanged if the stored configuration
\* has the same test_type, params and set of nodes_ids as s, fails with
\* SuiteConflictError if not; with no suite of that identity stored it
\* persists s.
C1_PutOrCheckSuite ==
    \A p \in DOMAIN callers :
        Returned(p) =>
            LET c == callers[p]
                id == c.suite.d.storage_id
            IN  /\ id \in DOMAIN suite_db
                /\ IF c.seen = None
                   THEN /\ c.outcome = "created"
                        /\ suite_db[id] = StoredSuite(c.suite)
                        /\ SameConfiguration(suite_db[id], c.suite)
                   ELSE /\ suite_db[id] = c.seen
                        /\ c.outcome = IF SameConfiguration(c.seen, c.suite)
                                       THEN "ok" ELSE "SuiteConflictError"

\* one caller stored a suite, the other passed the check with the same nodes
\* in another order
C1_Witness ==
    \E p, q \in DOMAIN callers :
        /\ callers[p].outcome = "created"
        /\ callers[q].outcome = "ok"
        /\ callers[q].seen = StoredSuite(callers[p].suite)
        /\ callers[q].suite.d.nodes_ids # callers[q].seen.d.nodes_ids

SameIdentity(p, q) == callers[p].suite.d.storage_id = callers[q].suite.d.storage_id

\* C2: concurrent put_or_check_suite calls for one identity are atomic: what
\* a caller saw is still what is stored when it decides, at most one caller
\* creates the suite, every other caller sees the suite that was created, and
\* two callers with differing configurations never both succeed.
C2_CheckThenWriteAtomic ==
    /\ \A p \in DOMAIN callers :
          callers[p].pc = "decide" =>
              LET id == callers[p].suite.d.storage_id
              IN  callers[p].seen = IF id \in DOMAIN suite_db THEN suite_db[id] ELSE None
    /\ \A p, q \in DOMAIN callers :
          (p # q /\ Returned(p) /\ Returned(q) /\ SameIdentity(p, q)) =>
              /\ ~(callers[p].outcome = "created" /\ callers[q].outcome = "created")
              /\ callers[p].outcome = "created" =>
                    callers[q].seen = StoredSuite(callers[p].suite)
              /\ (callers[p].outcome \in {"created", "ok"} /\
                  callers[q].outcome \in {"created", "ok"}) =>
                    SameConfiguration(callers[p].suite, callers[q].suite)

\* a second caller waited for the lock while the first created the suite, and
\* then failed on its differing params
C2_Witness ==
    \E p, q \in DOMAIN callers :
        /\ p # q
        /\ callers[p].outcome = "created"
        /\ callers[q].outcome = "SuiteConflictError"
        /\ SameIdentity(p, q)
        /\ callers[q].suite.d.params # callers[p].suite.d.params

---------------------------------------------------------------------------
(* TimeSeries and the series part of IResultStorage *)

MaxPuts == 3   \* put_ts calls in one run

\* TimeSeries.__init__
TimeSeries_init(name, raw, data, times, units, time_units, second_axis_size, source) ==
    [name |-> name, units |-> units, time_units |-> time_units, times |-> times,
     data |-> data, second_axis_size |-> second_axis_size, raw |-> raw,
     source |-> source]

JobIds == {<<"j", "0">>, <<"j", "1">>}
Sensors == {<<"b", "w">>, <<"l", "a", "t">>}

\* the keys the pipeline tags its series with: suite and job storage ids, one
\* node and device, two sensors
SeriesSources ==
    {DataSource_init([suite_id |-> Str(StorageId(<<"f", "i", "o">>, idx)),
                      job_id |-> Str(j), node_id |-> Str(<<"a">>),
                      dev |-> Str(<<"s", "d", "a">>), sensor |-> Str(sn),
                      tag |-> Str(<<"c", "s", "v">>)]) :
        idx \in Idxs, j \in JobIds, sn \in Sensors}

SeriesInputs ==
    {TimeSeries_init(src["dev"].v \o <<".">> \o src["sensor"].v, None,
                     [t |-> "ndarray", v |-> dat], [t |-> "ndarray", v |-> <<10, 20>>],
                     <<"M", "B">>, <<"u", "s">>, 1, src) :
        src \in SeriesSources, dat \in {<<1, 2>>, <<3, 4>>}}

\* mutant: a series already stored under the key is kept
IResultStorage_put_ts_keep(db, ts) ==
    LET key == DataSource_str(ts.source)
    IN  [k \in (DOMAIN db) \cup {key} |-> IF k \in DOMAIN db THEN db[k] ELSE ts]

\* put_ts(ts): the storage after persisting ts under the string form of its
\* DataSource, replacing what that key held
IResultStorage_put_ts(db, ts) ==
    LET key == DataSource_str(ts.source)
    IN  [k \in (DOMAIN db) \cup {key} |-> IF k = key THEN ts ELSE db[k]]

\* the stored series of one suite and job
IResultStorage_iter_ts(db, suite_id, job_id) ==
    {db[k] : k \in {k \in DOMAIN db : /\ db[k].source["suite_id"] = Str(suite_id)
                                      /\ db[k].source["job_id"] = Str(job_id)}}

\* the orders in which an iterator can yield the elements of S, each once
Orders(S) ==
    {sq \in [1..Cardinality(S) -> S] : \A i, j \in 1..Cardinality(S) : sq[i] = sq[j] => i = j}

NoIter == [op |-> "none", suite_id |-> <<>>, job_id |-> <<>>, out |-> <<>>]

TSIdle == ts_db = <<>> /\ ts_puts = <<>> /\ ts_iter = NoIter

\* storage.put_ts(ts)
PutTs ==
    /\ Len(ts_puts) < MaxPuts
    /\ \E ts \in SeriesInputs :
        /\ ts_db' = IResultStorage_put_ts(ts_db, ts)
        /\ ts_puts' = Append(ts_puts, ts)
    /\ ts_iter' = NoIter
    /\ UNCHANGED notTS

\* list(storage.iter_ts(suite, job))
IterTs ==
    /\ \E idx \in Idxs, j \in JobIds :
        LET sid == StorageId(<<"f", "i", "o">>, idx)
        IN  \E out \in Orders(IResultStorage_iter_ts(ts_db, sid, j)) :
                ts_iter' = [op |-> "iter", suite_id |-> sid, job_id |-> j, out |-> out]
    /\ UNCHANGED <<ts_db, ts_puts, notTS>>

\* the positions of the put_ts calls made with storage key k
PutsAt(k) == {i \in DOMAIN ts_puts : DataSource_str(ts_puts[i].source) = k}

Max(S) == CHOOSE x \in S : \A y \in S : y <= x

\* C8: the storage holds at most one TimeSeries per key, the one given to the
\* most recent put_ts with that exact key (so a put_ts never changes what
\* another key holds), and iter_ts(suite, job) yields exactly the series
\* currently stored under that suite and job, each once.
C8_PutTsOverwritesIterTsYieldsStored ==
    /\ DOMAIN ts_db = {DataSource_str(ts_puts[i].source) : i \in DOMAIN ts_puts}
    /\ \A k \in DOMAIN ts_db : ts_db[k] = ts_puts[Max(PutsAt(k))]
    /\ ts_iter.op = "iter" =>
          /\ \A i, j \in DOMAIN ts_iter.out : ts_iter.out[i] = ts_iter.out[j] => i = j
          /\ Range(ts_iter.out) =
                {ts_puts[i] : i \in {i \in DOMAIN ts_puts :
                    /\ i = Max(PutsAt(DataSource_str(ts_puts[i].source)))
                    /\ ts_puts[i].source["suite_id"] = Str(ts_iter.suite_id)
                    /\ ts_puts[i].source["job_id"] = Str(ts_iter.job_id)}}

\* a series was overwritten at its key, another key was left alone, and the
\* iteration over the overwritten key's suite and job yields the new series
C8_Witness ==
    /\ Len(ts_puts) = 3
    /\ ts_puts[1].source = ts_puts[3].source
    /\ ts_puts[1].data # ts_puts[3].data
    /\ ts_puts[2].source["suite_id"] = ts_puts[1].source["suite_id"]
    /\ ts_puts[2].source["job_id"] = ts_puts[1].source["job_id"]
    /\ ts_puts[2].source # ts_puts[1].source
    /\ ts_iter.op = "iter"
    /\ Len(ts_iter.out) = 2
    /\ ts_iter.out[1] = ts_puts[3]

---------------------------------------------------------------------------
(* StatProps, HistoStatProps, NormStatProps *)

MaxData == 2   \* samples in the data array handed to a constructor

NaN == [t |-> "nan"]
Inf == [t |-> "inf"]
Samples == {Num(1), Num(2), NaN, Inf}
NdArray(v) == [t |-> "ndarray", v |-> v]
DataArrays == {NdArray(v) : v \in UNION {[1..n -> Samples] : n \in 0..MaxData}}

\* __ignore_fields__ of StatProps and its subclasses
StatProps_ignore_fields == {"data"}

\* StatProps.__init__: every statistic starts as None, no check of data
StatProps_init(cls, data) ==
    [cls |-> cls,
     d |-> [perc_99 |-> None, perc_95 |-> None, perc_90 |-> None, perc_50 |-> None,
            min |-> None, max |-> None, bins_populations |-> None,
            bins_mids |-> None, data |-> data]]

\* HistoStatProps.__init__
HistoStatProps_init(data, second_axis_size) ==
    LET base == StatProps_init("HistoStatProps", data)
    IN  [base EXCEPT !.d = DictUpdate(base.d, [second_axis_size |-> Num(second_axis_size)])]

\* NormStatProps.__init__
NormStatProps_init(data) ==
    LET base == StatProps_init("NormStatProps", data)
    IN  [base EXCEPT !.d = DictUpdate(base.d,
            [average |-> None, deviation |-> None, confidence |-> None,
             confidence_level |-> None, normtest |-> None, skew |-> None,
             kurt |-> None])]

\* list(x): the elements of an array or sequence, TypeError on None or a number
PyList(x) ==
    IF x.t \in {"ndarray", "list", "tuple"} THEN Ok([t |-> "list", v |-> x.v])
    ELSE Raise("TypeError")

\* numpy.array(x)
NumpyArray(x) ==
    IF x.t \in {"ndarray", "list", "tuple"} THEN NdArray(x.v) ELSE NdArray(<<x>>)

\* StatProps.raw
StatProps_raw(obj) ==
    LET data == Storable_raw(obj, StatProps_ignore_fields)
        mids == PyList(data["bins_mids"])
        pops == PyList(data["bins_populations"])
    IN  IF ~mids.ok THEN mids
        ELSE IF ~pops.ok THEN pops
        ELSE Ok(DictUpdate(data, [bins_mids |-> mids.val, bins_populations |-> pops.val]))

\* NormStatProps.raw: reads data['nortest'], a key no attribute provides
NormStatProps_raw(obj) ==
    LET r == StatProps_raw(obj)
    IN  IF ~r.ok THEN r
        ELSE IF "nortest" \notin DOMAIN r.val THEN Raise("KeyError")
        ELSE Ok(DictUpdate(r.val,
                [normtest |-> [t |-> "tuple",
                               v |-> <<r.val["nortest"].statistic, r.val["nortest"].pvalue>>]]))

\* obj.raw(), dispatched on the class of obj
Raw(obj) == IF obj.cls = "NormStatProps" THEN NormStatProps_raw(obj) ELSE StatProps_raw(obj)

\* StatProps.fromraw
StatProps_fromraw(cls, data) ==
    IF ~({"bins_mids", "bins_populations"} \subseteq DOMAIN data) THEN Raise("KeyError")
    ELSE Ok(Storable_fromraw(cls,
                DictUpdate(data, [bins_mids |-> NumpyArray(data["bins_mids"]),
                                  bins_populations |-> NumpyArray(data["bins_populations"])]),
                StatProps_ignore_fields))

\* NormStatProps.fromraw
NormStatProps_fromraw(cls, data) ==
    IF "normtest" \notin DOMAIN data THEN Raise("KeyError")
    ELSE IF ~(data["normtest"].t \in {"tuple", "list"} /\ Len(data["normtest"].v) = 2)
         THEN Raise("TypeError")
    ELSE StatProps_fromraw(cls,
            DictUpdate(data, [normtest |-> [t |-> "NormaltestResult",
                                            statistic |-> data["normtest"].v[1],
                                            pvalue |-> data["normtest"].v[2]]]))

\* cls.fromraw(data)
Fromraw(cls, data) ==
    IF cls = "NormStatProps" THEN NormStatProps_fromraw(cls, data)
    ELSE StatProps_fromraw(cls, data)

\* the statistics the reduction fills in: percentiles and bounds
NumVals == {Num(1), Num(2)}
BaseStats == [perc_99 : NumVals, perc_95 : NumVals, perc_90 : NumVals,
              perc_50 : NumVals, min : NumVals, max : NumVals]
BinStats ==
    {[bins_mids |-> NdArray(m), bins_populations |-> NdArray(c)] :
        m \in {<<>>, <<Num(1)>>, <<Num(1), Num(2)>>}, c \in {<<>>, <<Num(2)>>, <<Num(2), Num(1)>>}}
NormStats ==
    {[average |-> a, deviation |-> b, confidence |-> a, confidence_level |-> b,
      normtest |-> [t |-> "NormaltestResult", statistic |-> a, pvalue |-> b],
      skew |-> b, kurt |-> a] : a \in NumVals, b \in NumVals}

\* the statistics an object of class cls receives
Populations(cls) ==
    {DictUpdate(DictUpdate(b, h), n) :
        b \in BaseStats,
        h \in {h \in BinStats : Len(h.bins_mids.v) = Len(h.bins_populations.v)},
        n \in IF cls = "NormStatProps" THEN NormStats ELSE {<<>>}}

NoOp == [op |-> "none", data |-> None, res |-> None, raw |-> None, back |-> None]

SPIdle == sp = None /\ sp_op = NoOp

\* sp = StatProps(data) | HistoStatProps(data, n) | NormStatProps(data)
Construct ==
    /\ sp = None
    /\ \E data \in DataArrays :
          \/ sp' = StatProps_init("StatProps", data)
          \/ \E n \in {1, 2} : sp' = HistoStatProps_init(data, n)
          \/ sp' = NormStatProps_init(data)
    /\ sp_op' = [NoOp EXCEPT !.op = "init", !.data = sp'.d["data"], !.res = Ok(None)]
    /\ UNCHANGED notSP

\* the reduction stores its results in the attributes of sp
Populate ==
    /\ sp # None
    /\ sp_op.op = "init"
    /\ Len(sp.d["data"].v) = MaxData
    /\ \E stats \in Populations(sp.cls) : sp' = [sp EXCEPT !.d = DictUpdate(sp.d, stats)]
    /\ sp_op' = [NoOp EXCEPT !.op = "populate", !.data = sp_op.data]
    /\ UNCHANGED notSP

\* back = type(sp).fromraw(sp.raw()); an exception of raw() propagates
RoundTrip ==
    /\ sp # None
    /\ sp_op.op \in {"init", "populate"}
    /\ LET r == Raw(sp)
       IN  sp_op' = [op |-> IF sp_op.op = "populate" THEN "roundtrip" ELSE "roundtrip_empty",
                     data |-> sp_op.data,
                     res |-> IF r.ok THEN Fromraw(sp.cls, r.val) ELSE r,
                     raw |-> r,
                     back |-> IF r.ok THEN Fromraw(sp.cls, r.val) ELSE None]
    /\ UNCHANGED <<sp, notSP>>

IsFinite(x) == x.t = "num"

\* C9: reducing an empty data array fails with EmptyInputError, reducing an
\* array with a non-finite value fails with InvalidSampleError, and in neither
\* case is a StatProps object produced.
C9_ReductionRejectsBadInput ==
    sp_op.op = "init" =>
        /\ sp_op.data.v = <<>> => (sp_op.res = Raise("EmptyInputError") /\ sp = None)
        /\ (\E i \in DOMAIN sp_op.data.v : ~IsFinite(sp_op.data.v[i])) =>
              (sp_op.res = Raise("InvalidSampleError") /\ sp = None)

\* C4: for every fully populated NormStatProps and HistoStatProps object,
\* cls.fromraw(sp.raw()) completes without error and yields an object with
\* identical statistics (normtest rebuilt from its pair), and the raw form
\* does not hold the data array.
C4_RawFromrawRoundTrip ==
    (sp_op.op = "roundtrip" /\ sp.cls \in {"NormStatProps", "HistoStatProps"}) =>
        /\ sp_op.raw.ok
        /\ "data" \notin DOMAIN sp_op.raw.val
        /\ sp_op.back.ok
        /\ sp_op.back.val.cls = sp.cls
        /\ \A f \in (DOMAIN sp.d) \ {"data"} : sp_op.back.val.d[f] = sp.d[f]

\* the half of C4 the code does satisfy: the histogram variant round-trips
C4_HistoRoundTrip ==
    (sp_op.op = "roundtrip" /\ sp.cls = "HistoStatProps") =>
        /\ sp_op.raw.ok
        /\ "data" \notin DOMAIN sp_op.raw.val
        /\ sp_op.raw.val["bins_mids"].t = "list"
        /\ sp_op.back.ok
        /\ sp_op.back.val.cls = sp.cls
        /\ \A f \in (DOMAIN sp.d) \ {"data"} : sp_op.back.val.d[f] = sp.d[f]

---------------------------------------------------------------------------
(* The statistics part of IResultStorage *)

\* the populated objects handed to put_stat
StoredStats ==
    {[o EXCEPT !.d = DictUpdate(o.d, st)] :
        o \in {StatProps_init("StatProps", NdArray(<<Num(1)>>)),
               HistoStatProps_init(NdArray(<<Num(1), Num(2)>>), 2),
               NormStatProps_init(NdArray(<<Num(2)>>))},
        st \in {[perc_99 |-> v, perc_95 |-> v, perc_90 |-> v, perc_50 |-> v,
                 min |-> v, max |-> v, bins_mids |-> NdArray(<<v>>),
                 bins_populations |-> NdArray(<<Num(1)>>)] @@
                [average |-> v, deviation |-> v, confidence |-> v, confidence_level |-> v,
                 normtest |-> [t |-> "NormaltestResult", statistic |-> v, pvalue |-> v],
                 skew |-> v, kurt |-> v] : v \in NumVals}}

StatClasses == {"StatProps", "HistoStatProps", "NormStatProps"}

\* the keys statistics are stored under
StatSources ==
    {DataSource_init([suite_id |-> Str(<<"f", "i", "o", "_", "0">>), job_id |-> Str(<<"j", "0">>),
                      node_id |-> Str(<<"a">>), dev |-> Str(<<"s", "d", "a">>),
                      sensor |-> Str(sn), tag |-> Str(<<"s", "t", "a", "t">>)]) :
        sn \in Sensors}

\* put_stat(data, source): persists the raw form of data, tagged with its
\* variant; an exception of data.raw() propagates and nothing is stored
IResultStorage_put_stat(db, data, source) ==
    LET r == Raw(data)
        key == DataSource_str(source)
    IN  IF ~r.ok THEN [db |-> db, res |-> r]
        ELSE [db |-> [k \in (DOMAIN db) \cup {key} |->
                         IF k = key THEN [cls |-> data.cls, raw |-> r.val] ELSE db[k]],
              res |-> Ok(None)]

\* get_stat(stat_cls, source)
IResultStorage_get_stat(db, stat_cls, source) ==
    LET key == DataSource_str(source)
    IN  IF key \notin DOMAIN db THEN Raise("NotFoundError")
        ELSE IF db[key].cls # stat_cls THEN Raise("TypeMismatchError")
        ELSE Fromraw(stat_cls, db[key].raw)

NoStatCall == [op |-> "none", cls |-> "", key |-> <<>>, res |-> None]

STIdle == st_db = <<>> /\ st_called = <<>> /\ st_last = NoStatCall

\* storage.put_stat(data, source)
PutStat ==
    /\ \E data \in StoredStats, source \in StatSources :
        LET r == IResultStorage_put_stat(st_db, data, source)
            key == DataSource_str(source)
        IN  /\ st_db' = r.db
            /\ st_called' = [k \in (DOMAIN st_called) \cup {key} |->
                                IF k = key THEN data ELSE st_called[k]]
            /\ st_last' = [op |-> "put", cls |-> data.cls, key |-> key, res |-> r.res]
    /\ UNCHANGED notST

\* storage.get_stat(stat_cls, source)
GetStat ==
    /\ \E stat_cls \in StatClasses, source \in StatSources :
        st_last' = [op |-> "get", cls |-> stat_cls, key |-> DataSource_str(source),
                    res |-> IResultStorage_get_stat(st_db, stat_cls, source)]
    /\ UNCHANGED <<st_db, st_called, notST>>

\* C3: after any sequence of put_stat calls, get_stat(stat_cls, source) fails
\* with NotFoundError if nothing was written under source, with
\* TypeMismatchError if the object stored under source is of another variant,
\* and otherwise returns an object of variant stat_cls equal field by field to
\* the object last written under source.
C3_GetStatReturnsLastPut ==
    st_last.op = "get" =>
        /\ st_last.key \notin DOMAIN st_called => st_last.res = Raise("NotFoundError")
        /\ (st_last.key \in DOMAIN st_db /\ st_db[st_last.key].cls # st_last.cls) =>
              st_last.res = Raise("TypeMismatchError")
        /\ (st_last.key \in DOMAIN st_called /\ st_called[st_last.key].cls = st_last.cls) =>
              /\ st_last.res.ok
              /\ st_last.res.val.cls = st_last.cls
              /\ \A f \in (DOMAIN st_called[st_last.key].d) \ StatProps_ignore_fields :
                    st_last.res.val.d[f] = st_called[st_last.key].d[f]

---------------------------------------------------------------------------
(* Config *)

MaxPathLen == 3   \* symbols in a path handed to Config.get
MaxDepth == 2     \* nesting depth of the configuration mapping

\* A path is a sequence of symbols: "/" is the separator and every other
\* symbol stands for an indivisible run of characters other than "/".  A name
\* (a dict key, an attribute name, a path segment) is a sequence of such
\* symbols.
PathSymbols == {"a", "get", "count", "/"}
Paths == UNION {[1..n -> PathSymbols] : n \in 0..MaxPathLen}
Keys == {<<"a">>, <<"get">>}
Leaves == {None, Str(<<"v">>)}
Defaults == {None, Str(<<"d">>)}

Dict(m) == [t |-> "dict", v |-> m]
Method(owner, name) == [t |-> "method", owner |-> owner, name |-> name]

\* the mappings over a subset of Keys with values in V
DictsOver(V) == UNION {{Dict(m) : m \in [K -> V]} : K \in SUBSET Keys}

RECURSIVE ConfigBlocks(_)
\* the values of a configuration block nested at most depth levels
ConfigBlocks(depth) ==
    IF depth = 0 THEN Leaves
    ELSE Leaves \cup DictsOver(ConfigBlocks(depth - 1))

\* Config.__init__: _dct is cleared and updated from dct, a copy of it
Config_init(dct) == [t |-> "Config", _dct |-> dct.v]

\* attributes found by normal lookup, before __getattr__ is tried: the
\* instance's _dct and the methods of the class
ConfigAttributes == {<<"_dct">>, <<"raw">>, <<"get">>}
StrAttributes == {<<"count">>}
DictAttributes == {<<"get">>}

\* Config.__getattr__
Config_getattr(self, name) ==
    IF name \notin DOMAIN self._dct THEN Raise("AttributeError")
    ELSE LET val == self._dct[name]
         IN  Ok(IF val.t = "dict" THEN Config_init(val) ELSE val)

\* getattr(curr, name): normal attribute lookup first, then __getattr__
GetAttr(curr, name) ==
    IF curr.t = "Config"
    THEN IF name = <<"_dct">> THEN Ok(Dict(curr._dct))
         ELSE IF name \in ConfigAttributes THEN Ok(Method("Config", name))
         ELSE Config_getattr(curr, name)
    ELSE IF curr.t = "str" /\ name \in StrAttributes THEN Ok(Method("str", name))
    ELSE IF curr.t = "dict" /\ name \in DictAttributes THEN Ok(Method("dict", name))
    ELSE Raise("AttributeError")

\* index of the first "/" in path, 0 if there is none
FirstSlash(path) ==
    IF \E i \in DOMAIN path : path[i] = "/"
    THEN CHOOSE i \in DOMAIN path : path[i] = "/" /\ \A j \in 1..(i - 1) : path[j] # "/"
    ELSE 0

\* path.split('/', 1), or (path, "") when path holds no "/"
Split(path) ==
    LET i == FirstSlash(path)
    IN  IF i = 0 THEN [name |-> path, rest |-> <<>>]
        ELSE [name |-> SubSeq(path, 1, i - 1), rest |-> SubSeq(path, i + 1, Len(path))]

RECURSIVE Config_get_loop(_, _, _)
\* the while loop of Config.get
Config_get_loop(curr, path, default) ==
    IF path = <<>> THEN curr
    ELSE LET sp1 == Split(path)
             r == GetAttr(curr, sp1.name)
         IN  IF ~r.ok THEN default
             ELSE Config_get_loop(r.val, sp1.rest, default)

\* Config.get
Config_get(self, path, default) == Config_get_loop(self, path, default)

NoGet == [op |-> "none", path |-> <<>>, default |-> None, res |-> None, before |-> None]

CfgIdle == cfg = None /\ cfg_last = NoGet

\* cfg.get(path, default)
ConfigGet ==
    /\ \E path \in Paths, default \in Defaults :
        cfg_last' = [op |-> "get", path |-> path, default |-> default,
                     res |-> Config_get(cfg, path, default), before |-> cfg]
    /\ UNCHANGED <<cfg, notCfg>>

RECURSIVE Resolve(_, _, _)
\* the lookup as documented: segment by segment through the nested mapping,
\* default at the first segment that is not a key of the current block, a
\* nested mapping wrapped as Config
Resolve(block, path, default) ==
    IF path = <<>> THEN (IF block.t = "dict" THEN Config_init(block) ELSE block)
    ELSE LET sp1 == Split(path)
         IN  IF block.t = "dict" /\ sp1.name \in DOMAIN block.v
             THEN Resolve(block.v[sp1.name], sp1.rest, default)
             ELSE default

\* C10: Config.get(path, default) resolves the '/'-separated path one segment
\* at a time from the Config itself, returns the value at the end of the path
\* if every segment is a key of the current block (nested mappings wrapped as
\* Config), returns default as soon as a segment is not present, and never
\* modifies the underlying mapping.
C10_GetResolvesPath ==
    cfg_last.op = "get" =>
        /\ cfg_last.res = Resolve(Dict(cfg_last.before._dct), cfg_last.path, cfg_last.default)
        /\ cfg = cfg_last.before

\* what holds of the code: C10 for paths without a segment that normal
\* attribute lookup finds on the object reached
C10_OrdinarySegments ==
    (cfg_last.op = "get" /\ \A i \in DOMAIN cfg_last.path : cfg_last.path[i] \in {"a", "/"}) =>
        /\ cfg_last.res = Resolve(Dict(cfg_last.before._dct), cfg_last.path, cfg_last.default)
        /\ cfg = cfg_last.before

---------------------------------------------------------------------------
(* main, ssh runner (src/run_test.py) *)

\* the most lines of test parameters in io_opts
MaxTests == 2

Digits == <<"0", "1", "2", "3", "4", "5", "6", "7", "8", "9">>

RECURSIVE DecimalValue(_)
DecimalValue(s) ==
    IF s = <<>> THEN 0
    ELSE LET d == CHOOSE i \in DOMAIN Digits : Digits[i] = s[Len(s)]
         IN  DecimalValue(SubSeq(s, 1, Len(s) - 1)) * Len(Digits) + (d - 1)

\* int(s) of a string: its decimal value, ValueError unless s is one or more
\* digits
PyInt(s) ==
    IF s # <<>> /\ \A i \in DOMAIN s : s[i] \in Range(Digits)
    THEN Ok(DecimalValue(s))
    ELSE Raise("ValueError")

\* the "count" runner option; "x1" when the option is absent
RawCounts == {<<"x", "1">>, <<"x", "2">>, <<"x">>, <<"2">>, <<"a">>}

\* how many nova-compute services nova.services.list may report
ServiceCounts == {1, 2}

\* the __meta__ of a measurement: the parameters of the test it belongs to
Metas ==
    {[action |-> <<"w">>, sync |-> s, direct_io |-> d,
      concurence |-> <<"1">>, blocksize |-> <<"4">>] : s \in BOOLEAN, d \in BOOLEAN}

BwMeans == {10, 20}

\* a measurement as the test tool reports it
Measurement(bw, meta) ==
    [k \in {"bw_mean", "__meta__"} |-> IF k = "bw_mean" THEN bw ELSE meta]

\* a measurement without "bw_mean", as a broken test tool reports it
BrokenMeasurement(meta) == [k \in {"__meta__"} |-> meta]

\* what run_io_test may return: no measurement, one, or one per VM; the
\* measurements of one test run share the test's parameters
TestResults ==
    {<<>>}
        \cup {<<BrokenMeasurement(meta)>> : meta \in Metas}
        \cup {<<Measurement(bw, meta)>> : bw \in BwMeans, meta \in Metas}
        \cup {<<Measurement(bw1, meta), Measurement(bw2, meta)>> :
                bw1 \in BwMeans, bw2 \in BwMeans, meta \in Metas}

RECURSIVE SumOver(_, _)
SumOver(f, n) == IF n = 0 THEN 0 ELSE f[n] + SumOver(f, n - 1)

\* int(x ** 0.5) for a whole x
IntSqrt(x) == CHOOSE r \in 0..x : r * r <= x /\ (r + 1) * (r + 1) > x

\* json.dumps: the JSON text of a value; a tuple is written as an array
JsonDumps(x) ==
    [t |-> "json",
     v |-> [k \in DOMAIN x.v |->
               IF x.v[k].t = "tuple" THEN [t |-> "list", v |-> x.v[k].v] ELSE x.v[k]]]

\* json.loads: the value of a JSON text; TypeError for an argument that is
\* not a string
JsonLoads(s) ==
    IF s.t = "json" THEN Ok([t |-> "dict", v |-> s.v]) ELSE Raise("TypeError")

\* format_measurements_stat(res): None for no measurement, else the JSON text
\* of {key: (int(bw_mean), int(bw_dev))}
format_measurements_stat(res) ==
    IF Len(res) # 0
    THEN IF \E i \in DOMAIN res : "bw_mean" \notin DOMAIN res[i]
         THEN Raise("KeyError")
         ELSE LET n == Len(res)
                  total == SumOver([i \in DOMAIN res |-> res[i]["bw_mean"]], n)
                  \* bw_mean = total / n; each (bw_mean - x) ** 2 is
                  \* (total - n * x) ** 2 / n ** 2
                  sq == SumOver([i \in DOMAIN res |->
                           (total - n * res[i]["bw_mean"]) * (total - n * res[i]["bw_mean"])], n)
                  bw_mean == total \div n
                  bw_dev == IntSqrt(sq) \div n
                  meta == res[1]["__meta__"]
                  ss == IF meta.sync /\ meta.direct_io THEN <<"d", "+">>
                        ELSE IF meta.sync THEN <<"s">>
                        ELSE IF meta.direct_io THEN <<"d">>
                        ELSE <<"a">>
                  key == meta.action \o <<" ">> \o ss \o <<" ">> \o meta.concurence
                             \o <<" ">> \o meta.blocksize \o <<"k">>
              IN  Ok(JsonDumps([t |-> "dict",
                                v |-> [k \in {key} |-> [t |-> "tuple", v |-> <<bw_mean, bw_dev>>]]]))
    ELSE Ok(None)

\* format_result(res): the text logged after a test run; raises what
\* format_measurements_stat raises
format_result(res) ==
    LET stat == format_measurements_stat(res)
    IN  IF stat.ok THEN Ok([t |-> "str", res |-> res, stat |-> stat.val]) ELSE stat

\* a local variable that has not been assigned
Unbound == [t |-> "unbound"]

\* a list of measurements as a Python value
ResultList(res) == [t |-> "list", v |-> res]

BuildName == <<"b">>

\* main has not been started
MainIdle ==
    /\ main_pc = "idle"
    /\ main_locals = [raw_count |-> <<>>, io_opts |-> <<>>, count |-> Unbound,
                      res |-> Unbound, result |-> Unbound]
    /\ main_trace = <<>>
    /\ main_exit = "none"

\* main up to the connection to nova: io_opts has at least one line of
\* parameters (get_io_opts exits otherwise), raw_count is the runner option
MainStart ==
    /\ main_pc = "connect"
    /\ \E n \in 1..MaxTests, raw_count \in RawCounts :
         main_locals = [raw_count |-> raw_count, io_opts |-> [i \in 1..n |-> <<"-a">>],
                        count |-> Unbound, res |-> Unbound, result |-> Unbound]
    /\ main_trace = <<>>
    /\ main_exit = "none"

Called(name, ok, n) == [call |-> name, ok |-> ok, n |-> n]

\* an exception leaves main
MainRaises(err) == main_pc' = "done" /\ main_exit' = err

\* where control goes from the body of the try statement
TryExit(raised) == IF raised THEN "except" ELSE "finally"

\* where control goes from the except clause: without the finally clause
\* it would go to the statement after the try statement
ExceptExit_nofinally == "stat"

\* where control goes from the except clause
ExceptExit == "finally"

\* nova = nova_connect()
NovaConnect ==
    /\ main_pc = "connect"
    /\ \E ok \in BOOLEAN :
         /\ main_trace' = Append(main_trace, Called("nova_connect", ok, 0))
         /\ IF ok THEN main_pc' = "count" /\ UNCHANGED main_exit
                  ELSE MainRaises("Exception")
    /\ UNCHANGED <<main_locals, notMain>>

\* count from raw_count: "x<k>" is k times the number of compute services
ComputeCount ==
    /\ main_pc = "count"
    /\ LET raw_count == main_locals.raw_count
       IN  IF raw_count # <<>> /\ raw_count[1] = "x"
           THEN \/ /\ main_trace' = Append(main_trace, Called("nova.services.list", FALSE, 0))
                   /\ MainRaises("Exception")
                   /\ UNCHANGED main_locals
                \/ \E n \in ServiceCounts :
                     LET k == PyInt(Tail(raw_count))
                     IN  /\ main_trace' = Append(main_trace, Called("nova.services.list", TRUE, n))
                         /\ IF k.ok
                            THEN /\ main_locals' = [main_locals EXCEPT !.count = n * k.val]
                                 /\ main_pc' = "create"
                                 /\ UNCHANGED main_exit
                            ELSE MainRaises(k.err) /\ UNCHANGED main_locals
           ELSE LET k == PyInt(raw_count)
                IN  /\ UNCHANGED main_trace
                    /\ IF k.ok
                       THEN /\ main_locals' = [main_locals EXCEPT !.count = k.val]
                            /\ main_pc' = "create"
                            /\ UNCHANGED main_exit
                       ELSE MainRaises(k.err) /\ UNCHANGED main_locals
    /\ UNCHANGED notMain

\* try: ips = [... create_vms_mt(nova, count, ...)]
CreateVms ==
    /\ main_pc = "create"
    /\ \E ok \in BOOLEAN :
         /\ main_trace' = Append(main_trace, Called("create_vms_mt", ok, main_locals.count))
         /\ main_pc' = IF ok THEN "loop" ELSE TryExit(TRUE)
    /\ UNCHANGED <<main_locals, main_exit, notMain>>

\* one pass of "for script_args in io_opts": get_ssh_runner, run_io_test,
\* format_result
RunTest ==
    /\ main_pc = "loop"
    /\ LET rest == Tail(main_locals.io_opts)
       IN  \/ /\ main_trace' = Append(main_trace, Called("get_ssh_runner", FALSE, 0))
              /\ main_pc' = TryExit(TRUE)
              /\ UNCHANGED main_locals
           \/ /\ main_trace' = main_trace \o <<Called("get_ssh_runner", TRUE, 0),
                                               Called("run_io_test", FALSE, 0)>>
              /\ main_pc' = TryExit(TRUE)
              /\ UNCHANGED main_locals
           \/ \E res \in TestResults :
                /\ main_trace' = main_trace \o <<Called("get_ssh_runner", TRUE, 0),
                                                 Called("run_io_test", TRUE, Len(res))>>
                /\ IF format_result(res).ok
                   THEN /\ main_locals' = [main_locals EXCEPT !.res = ResultList(res), !.io_opts = rest]
                        /\ main_pc' = IF rest = <<>> THEN TryExit(FALSE) ELSE "loop"
                   ELSE /\ main_locals' = [main_locals EXCEPT !.res = ResultList(res)]
                        /\ main_pc' = TryExit(TRUE)
    /\ UNCHANGED <<main_exit, notMain>>

\* except: traceback.print_exc()
Except ==
    /\ main_pc = "except"
    /\ main_pc' = ExceptExit
    /\ UNCHANGED <<main_locals, main_trace, main_exit, notMain>>

\* finally: clear_all(nova)
ClearAll ==
    /\ main_pc = "finally"
    /\ \E ok \in BOOLEAN :
         /\ main_trace' = Append(main_trace, Called("clear_all", ok, 0))
         /\ IF ok THEN main_pc' = "stat" /\ UNCHANGED main_exit
                  ELSE MainRaises("Exception")
    /\ UNCHANGED <<main_locals, notMain>>

\* result = json.loads(format_measurements_stat(res)); result['name'] =
\* build_name; add_test(build_name, result, data_server_url); return 0
Upload ==
    /\ main_pc = "stat"
    /\ LET res == main_locals.res
           stat == format_measurements_stat(res.v)
           loaded == JsonLoads(stat.val)
           name == <<"n", "a", "m", "e">>
       IN  IF res.t = "unbound"
           THEN MainRaises("UnboundLocalError") /\ UNCHANGED <<main_locals, main_trace>>
           ELSE IF ~stat.ok
           THEN MainRaises(stat.err) /\ UNCHANGED <<main_locals, main_trace>>
           ELSE IF ~loaded.ok
           THEN MainRaises(loaded.err) /\ UNCHANGED <<main_locals, main_trace>>
           ELSE /\ main_locals' = [main_locals EXCEPT !.result =
                       [t |-> "dict",
                        v |-> [k \in DOMAIN loaded.val.v \cup {name} |->
                                  IF k = name THEN Str(BuildName) ELSE loaded.val.v[k]]]]
                /\ \E ok \in BOOLEAN :
                     /\ main_trace' = Append(main_trace, Called("add_test", ok, 0))
                     /\ main_pc' = "done"
                     /\ main_exit' = IF ok THEN "return" ELSE "Exception"
    /\ UNCHANGED notMain

\* the positions in main_trace of the calls of a function
Calls(name) == {i \in DOMAIN main_trace : main_trace[i].call = name}

\* nova_connect() has returned the connection
NovaObtained == \E i \in Calls("nova_connect") : main_trace[i].ok

\* main has entered the try statement: its first statement calls create_vms_mt
TryEntered == Calls("create_vms_mt") # {}

\* a test run completed and produced a result
TestProducedResult ==
    \E i \in Calls("run_io_test") : main_trace[i].ok /\ main_trace[i].n > 0

\* clear_all is never called twice, every add_test call comes after a
\* clear_all call, and add_test is called only if a test run completed and
\* produced a result
ClearThenUpload ==
    /\ Cardinality(Calls("clear_all")) <= 1
    /\ \A a \in Calls("add_test") : \E c \in Calls("clear_all") : c < a
    /\ Calls("add_test") # {} => TestProducedResult

\* C11 as stated: in main with the ssh runner, once the nova connection is
\* obtained, clear_all(nova) is called exactly once on every execution path,
\* always before the result is uploaded with add_test, and the upload happens
\* only when at least one test run completed and produced a result.
C11_ClearAllOnceAfterConnect ==
    /\ NovaObtained => ClearThenUpload
    /\ (main_pc = "done" /\ NovaObtained) => Cardinality(Calls("clear_all")) = 1

\* C11, amended: in main with the ssh runner, once the number of VMs has been
\* computed and the try statement is entered, clear_all(nova) is called
\* exactly once on every execution path - whether VM creation and every test
\* run succeed or any of them raises - always before the result is uploaded
\* with add_test, and the upload happens only when at least one test run
\* completed and produced a result; if computing the number of VMs raises,
\* clear_all is not called at all.
C11_ClearAllOnceAfterTryEntered ==
    /\ ClearThenUpload
    /\ (main_pc = "done" /\ TryEntered) => Cardinality(Calls("clear_all")) = 1
    /\ (main_pc = "done" /\ ~TryEntered) => Calls("clear_all") = {}

\* main ended after a test run completed with a result, a later test run
\* raised, clear_all was called and the result was uploaded
C11_Witness ==
    /\ main_pc = "done"
    /\ main_exit = "return"
    /\ \E i \in Calls("run_io_test"), j \in Calls("run_io_test") :
         /\ i < j
         /\ main_trace[i].ok /\ main_trace[i].n > 0
         /\ ~main_trace[j].ok
    /\ \E c \in Calls("clear_all"), a \in Calls("add_test") :
         c < a /\ main_trace[c].ok /\ main_trace[a].ok

---------------------------------------------------------------------------
(* Specifications *)

InitDS == DSIdle /\ EqIdle /\ SuiteIdle /\ TSIdle /\ SPIdle /\ STIdle /\ CfgIdle /\ MainIdle
NextDS == DataSourceNew \/ DataSourceCall
SpecDS == InitDS /\ [][NextDS]_vars

InitEq == DSIdle /\ EqIdle /\ SuiteIdle /\ TSIdle /\ SPIdle /\ STIdle /\ CfgIdle /\ MainIdle
NextEq == NewLeft \/ NewRight \/ Compare
SpecEq == InitEq /\ [][NextEq]_vars

InitSuite ==
    /\ DSIdle /\ EqIdle /\ TSIdle /\ SPIdle /\ STIdle /\ CfgIdle /\ MainIdle
    /\ suite_db \in SuiteDbs
    /\ suite_locks = {}
    /\ callers = [p \in 1..MaxCallers |-> IdleCaller]
NextSuite ==
    \E p \in 1..MaxCallers :
        Begin(p) \/ Acquire(p) \/ Check(p) \/ Decide(p) \/ Release(p)
SpecSuite == InitSuite /\ [][NextSuite]_vars

InitTS == DSIdle /\ EqIdle /\ SuiteIdle /\ TSIdle /\ SPIdle /\ STIdle /\ CfgIdle /\ MainIdle
NextTS == PutTs \/ IterTs
SpecTS == InitTS /\ [][NextTS]_vars

InitSP == DSIdle /\ EqIdle /\ SuiteIdle /\ TSIdle /\ SPIdle /\ STIdle /\ CfgIdle /\ MainIdle
NextSP == Construct \/ Populate \/ RoundTrip
SpecSP == InitSP /\ [][NextSP]_vars

InitST == DSIdle /\ EqIdle /\ SuiteIdle /\ TSIdle /\ SPIdle /\ STIdle /\ CfgIdle /\ MainIdle
NextST == PutStat \/ GetStat
SpecST == InitST /\ [][NextST]_vars

InitCfg ==
    /\ DSIdle /\ EqIdle /\ SuiteIdle /\ TSIdle /\ SPIdle /\ STIdle /\ MainIdle
    /\ cfg \in {Config_init(dct) : dct \in DictsOver(ConfigBlocks(MaxDepth - 1))}
    /\ cfg_last = NoGet
NextCfg == ConfigGet
SpecCfg == InitCfg /\ [][NextCfg]_vars

InitMain ==
    /\ DSIdle /\ EqIdle /\ SuiteIdle /\ TSIdle /\ SPIdle /\ STIdle /\ CfgIdle
    /\ MainStart
NextMain == NovaConnect \/ ComputeCount \/ CreateVms \/ RunTest \/ Except \/ ClearAll \/ Upload
SpecMain == InitMain /\ [][NextMain]_vars

=============================================================================
